---- MODULE Spec2Model ----
(***************************************************************************)
(* Model of src/main.py: a FastAPI service whose fetch route drives one    *)
(* remote Selenium session per request (create_driver, get, wait, read,    *)
(* quit) and maps the outcome to an HTTP response.                         *)
(***************************************************************************)
EXTENDS Integers, Sequences, FiniteSets, TLC

\* ---------------------------------------------------------------- bounds
MaxReqs == 2

Reqs == 1..MaxReqs

\* ------------------------------------------------------------- constants
SELENIUM_HUB_URL == "http://localhost:4444/wd/hub"

HttpPrefix == <<"h", "t", "t", "p", ":", "/", "/">>

HttpsPrefix == <<"h", "t", "t", "p", "s", ":", "/", "/">>

\* Values of the `url` query parameter that requests are drawn from.
Urls ==
  { <<>>,
    HttpPrefix \o <<"a">>,
    HttpsPrefix \o <<"a">>,
    <<"f", "t", "p", ":", "/", "/", "a">>,
    <<"h", "t", "t", "p", ":", "/", "a">>,
    <<"H", "T", "T", "P", ":", "/", "/", "a">> }

\* A query string either carries no `url` parameter (<<>>) or one value.
Queries == { <<>> } \cup { <<u>> : u \in Urls }

\* Serialized documents the remote browser may return for page_source.
Docs == { <<"<body>", "Hello", "</body>">>, <<>> }

Routes == { "/", "/health" }

\* Exception classes the selenium client calls may raise.
Raisable == { "TimeoutException", "WebDriverException", "RuntimeError" }

\* Python class hierarchy (method resolution order) of the exceptions.
Mro(cls) ==
  CASE cls = "TimeoutException" ->
         { "TimeoutException", "WebDriverException", "Exception" }
    [] cls = "WebDriverException" -> { "WebDriverException", "Exception" }
    [] cls = "HTTPException" -> { "HTTPException", "Exception" }
    [] OTHER -> { cls, "Exception" }

IsInstance(cls, base) == base \in Mro(cls)

\* A prefix test that compares only the first four characters.
StartsWith_Loose(s, p) ==
  Len(s) >= 4 /\ Len(p) >= 4 /\ SubSeq(s, 1, 4) = SubSeq(p, 1, 4)

\* str.startswith
StartsWith(s, p) == Len(s) >= Len(p) /\ SubSeq(s, 1, Len(p)) = p

NoResp == [status |-> 0, detail |-> <<>>, body |-> <<>>, json |-> <<>>]

HTTPException(code, det) ==
  [status |-> code, detail |-> det, body |-> <<>>, json |-> <<>>]

\* A response that drops the first fragment of the content.
HTMLResponse_Truncating(content) ==
  [status |-> 200,
   detail |-> <<>>,
   body |-> IF content = <<>> THEN <<>> ELSE Tail(content),
   json |-> <<>>]

HTMLResponse(content) ==
  [status |-> 200, detail |-> <<>>, body |-> content, json |-> <<>>]

JSONResponse(payload) ==
  [status |-> 200, detail |-> <<>>, body |-> <<>>, json |-> payload]

HealthPayload == << <<"status", "healthy">>, <<"service", "selenium-scraper">> >>

\* The `except Exception` clause of create_driver: whatever was raised is
\* replaced by an HTTPException naming the hub.
CreateDriverExcept(cls) ==
  [cls |-> "HTTPException",
   http |-> HTTPException(500, <<"Failed to connect to remote browser at ",
                                 SELENIUM_HUB_URL>>)]

\* The except clauses with the WebDriverException clause placed first.
ExceptClauses_Swapped ==
  << [cls |-> "WebDriverException",
      http |-> [status |-> 500, detail |-> <<"Browser error occurred">>,
                body |-> <<>>, json |-> <<>>]],
     [cls |-> "TimeoutException",
      http |-> [status |-> 408, detail |-> <<"Page load timeout">>,
                body |-> <<>>, json |-> <<>>]],
     [cls |-> "Exception",
      http |-> [status |-> 500, detail |-> <<"Internal server error">>,
                body |-> <<>>, json |-> <<>>]] >>

\* The except clauses with every WebDriverException reported as a timeout.
ExceptClauses_Merged ==
  << [cls |-> "TimeoutException",
      http |-> [status |-> 408, detail |-> <<"Page load timeout">>,
                body |-> <<>>, json |-> <<>>]],
     [cls |-> "WebDriverException",
      http |-> [status |-> 408, detail |-> <<"Page load timeout">>,
                body |-> <<>>, json |-> <<>>]],
     [cls |-> "Exception",
      http |-> [status |-> 500, detail |-> <<"Internal server error">>,
                body |-> <<>>, json |-> <<>>]] >>

\* The except clauses without the TimeoutException clause.
ExceptClauses_NoTimeout ==
  << [cls |-> "WebDriverException",
      http |-> [status |-> 500, detail |-> <<"Browser error occurred">>,
                body |-> <<>>, json |-> <<>>]],
     [cls |-> "Exception",
      http |-> [status |-> 500, detail |-> <<"Internal server error">>,
                body |-> <<>>, json |-> <<>>]] >>

\* The except clauses of fetch_page, in source order.
ExceptClauses ==
  << [cls |-> "TimeoutException",
      http |-> HTTPException(408, <<"Page load timeout">>)],
     [cls |-> "WebDriverException",
      http |-> HTTPException(500, <<"Browser error occurred">>)],
     [cls |-> "Exception",
      http |-> HTTPException(500, <<"Internal server error">>)] >>

\* The first except clause that matches the raised class decides the outcome.
FetchExcept(cls) ==
  LET matching == { i \in 1..Len(ExceptClauses) :
                      IsInstance(cls, ExceptClauses[i].cls) }
      first == CHOOSE i \in matching : \A j \in matching : i <= j
  IN  ExceptClauses[first].http

\* A finally block that quits unconditionally.
Truthy_Always(d) == TRUE

\* `if driver:` in the finally block (None is modelled as 0).
Truthy(d) == d # 0

\* FastAPI's handling of the required parameter `url: str = Query(...)`.
MissingRequired(q) == Len(q) = 0

ValidationError == HTTPException(422, <<"query.url: field required">>)

VARIABLES
  hubUp,      \* whether the remote endpoint accepts new sessions
  sessions,   \* session ids live on the remote backend
  nextSid,    \* next session id the backend hands out
  current,    \* request whose handler the event loop is running, 0 if none
  pc,         \* position of each request
  route,      \* route of each request
  query,      \* query string of each request
  driver,     \* the handler's local `driver` (0 is None)
  page_source,\* the handler's local `page_source`
  pending,    \* outcome the handler has decided (return value or raised error)
  resp,       \* response sent to the caller
  log         \* calls made on the remote client and responses, in order

vars == << hubUp, sessions, nextSid, current, pc, route, query, driver,
           page_source, pending, resp, log >>

Entry(r, op, sid, res) == [req |-> r, op |-> op, sid |-> sid, res |-> res]

Init ==
  /\ hubUp \in BOOLEAN
  /\ sessions = {}
  /\ nextSid = 1
  /\ current = 0
  /\ pc = [r \in Reqs |-> "idle"]
  /\ route = [r \in Reqs |-> "/"]
  /\ query = [r \in Reqs |-> <<>>]
  /\ driver = [r \in Reqs |-> 0]
  /\ page_source = [r \in Reqs |-> <<>>]
  /\ pending = [r \in Reqs |-> NoResp]
  /\ resp = [r \in Reqs |-> NoResp]
  /\ log = <<>>

\* The remote endpoint becomes reachable or unreachable.
HubChange ==
  /\ hubUp' = ~hubUp
  /\ UNCHANGED << sessions, nextSid, current, pc, route, query, driver,
                  page_source, pending, resp, log >>

\* Request ids number the requests in the order in which the event loop
\* starts their handlers; requests may arrive in any order.
Started(r) == pc[r] \notin {"idle", "queued"}

\* An HTTP request arrives at the server.
Receive(r) ==
  /\ pc[r] = "idle"
  /\ \E rt \in Routes : route' = [route EXCEPT ![r] = rt]
  /\ pc' = [pc EXCEPT ![r] = "queued"]
  /\ UNCHANGED << hubUp, sessions, nextSid, current, query, driver,
                  page_source, pending, resp, log >>

\* A health check that is served while another handler is still running.
HealthCheck_Unguarded(r) ==
  /\ pc[r] = "queued"
  /\ route[r] = "/health"
  /\ resp' = [resp EXCEPT ![r] =
               [status |-> 200, detail |-> <<>>, body |-> <<>>,
                json |-> << <<"status", "healthy">>,
                            <<"service", "selenium-scraper">> >>]]
  /\ pc' = [pc EXCEPT ![r] = "done"]
  /\ log' = Append(log, [req |-> r, op |-> "health", sid |-> 0, res |-> "ok"])
  /\ UNCHANGED << hubUp, sessions, nextSid, current, route, query, driver,
                  page_source, pending >>

\* A health check that probes the remote endpoint and reports its state.
HealthCheck_Probing(r) ==
  /\ pc[r] = "queued"
  /\ route[r] = "/health"
  /\ current = 0
  /\ \A p \in 1..(r - 1) : Started(p)
  /\ resp' = [resp EXCEPT ![r] =
               IF hubUp
                 THEN [status |-> 200, detail |-> <<>>, body |-> <<>>,
                       json |-> << <<"status", "healthy">>,
                                   <<"service", "selenium-scraper">> >>]
                 ELSE [status |-> 503, detail |-> <<>>, body |-> <<>>,
                       json |-> << <<"status", "unhealthy">>,
                                   <<"service", "selenium-scraper">> >>]]
  /\ pc' = [pc EXCEPT ![r] = "done"]
  /\ log' = Append(log, [req |-> r, op |-> "health", sid |-> 0, res |-> "ok"])
  /\ UNCHANGED << hubUp, sessions, nextSid, current, route, query, driver,
                  page_source, pending >>

\* health_check: runs when the event loop is free.
HealthCheck(r) ==
  /\ pc[r] = "queued"
  /\ route[r] = "/health"
  /\ current = 0
  /\ \A p \in 1..(r - 1) : Started(p)
  /\ resp' = [resp EXCEPT ![r] = JSONResponse(HealthPayload)]
  /\ pc' = [pc EXCEPT ![r] = "done"]
  /\ log' = Append(log, Entry(r, "health", 0, "ok"))
  /\ UNCHANGED << hubUp, sessions, nextSid, current, route, query, driver,
                  page_source, pending >>

\* Parameter binding of fetch_page: the query string of the request is
\* parsed; a missing `url` is rejected before the body of the handler runs.
BindFetch(r) ==
  /\ pc[r] = "queued"
  /\ route[r] = "/"
  /\ current = 0
  /\ \A p \in 1..(r - 1) : Started(p)
  /\ \E q \in Queries :
       /\ query' = [query EXCEPT ![r] = q]
       /\ IF MissingRequired(q)
            THEN /\ resp' = [resp EXCEPT ![r] = ValidationError]
                 /\ pc' = [pc EXCEPT ![r] = "done"]
                 /\ UNCHANGED current
            ELSE /\ pc' = [pc EXCEPT ![r] = "validate"]
                 /\ current' = r
                 /\ UNCHANGED resp
  /\ UNCHANGED << hubUp, sessions, nextSid, route, driver, page_source,
                  pending, log >>

\* A handler that opens the session before it checks the url.
ValidateUrl_Late(r) ==
  /\ current = r
  /\ pc[r] = "validate"
  /\ LET url == query[r][1]
         bad == \/ url = <<>>
                \/ ~(\/ (Len(url) >= 7 /\ SubSeq(url, 1, 7) = HttpPrefix)
                      \/ (Len(url) >= 8 /\ SubSeq(url, 1, 8) = HttpsPrefix))
     IN  IF bad
           THEN /\ sessions' = sessions \cup {nextSid}
                /\ nextSid' = nextSid + 1
                /\ log' = Append(log, [req |-> r, op |-> "open",
                                       sid |-> nextSid, res |-> "ok"])
                /\ resp' = [resp EXCEPT ![r] =
                             [status |-> 400,
                              detail |-> <<"URL parameter is required">>,
                              body |-> <<>>, json |-> <<>>]]
                /\ pc' = [pc EXCEPT ![r] = "done"]
                /\ current' = 0
           ELSE /\ pc' = [pc EXCEPT ![r] = "remote"]
                /\ UNCHANGED << sessions, nextSid, log, resp, current >>
  /\ UNCHANGED << hubUp, route, query, driver, page_source, pending >>

\* Lines 71-78: the two URL checks, raised outside the try block.
ValidateUrl(r) ==
  /\ current = r
  /\ pc[r] = "validate"
  /\ LET url == query[r][1] IN
       IF url = <<>>
         THEN /\ resp' = [resp EXCEPT ![r] =
                   HTTPException(400, <<"URL parameter is required">>)]
              /\ pc' = [pc EXCEPT ![r] = "done"]
              /\ current' = 0
              /\ UNCHANGED driver
         ELSE IF ~(StartsWith(url, HttpPrefix) \/ StartsWith(url, HttpsPrefix))
           THEN /\ resp' = [resp EXCEPT ![r] =
                     HTTPException(400,
                       <<"URL must start with http:// or https://">>)]
                /\ pc' = [pc EXCEPT ![r] = "done"]
                /\ current' = 0
                /\ UNCHANGED driver
           ELSE /\ driver' = [driver EXCEPT ![r] = 0]
                /\ pc' = [pc EXCEPT ![r] = "remote"]
                /\ UNCHANGED << resp, current >>
  /\ UNCHANGED << hubUp, sessions, nextSid, route, query, page_source,
                  pending, log >>

\* A create_driver that hands every request one shared, module-level session.
RemoteOpen_Shared(r) ==
  /\ current = r
  /\ pc[r] = "remote"
  /\ \/ /\ hubUp
        /\ sessions' = sessions \cup {1}
        /\ nextSid' = 2
        /\ log' = Append(log, [req |-> r, op |-> "open", sid |-> 1,
                               res |-> "ok"])
        /\ pc' = [pc EXCEPT ![r] = "set_timeout"]
        /\ UNCHANGED pending
     \/ \E e \in Raisable :
          /\ log' = Append(log, [req |-> r, op |-> "open", sid |-> 0,
                                 res |-> e])
          /\ pending' = [pending EXCEPT ![r] =
                           [status |-> 500,
                            detail |-> <<"Internal server error">>,
                            body |-> <<>>, json |-> <<>>]]
          /\ pc' = [pc EXCEPT ![r] = "finally"]
          /\ UNCHANGED << sessions, nextSid >>
  /\ UNCHANGED << hubUp, current, route, query, driver, page_source, resp >>

\* create_driver, lines 49-53: webdriver.Remote(...) opens a session or raises.
\* A raise is turned into the HTTPException of line 58, which the except
\* clauses of fetch_page then handle.
RemoteOpen(r) ==
  /\ current = r
  /\ pc[r] = "remote"
  /\ \/ /\ hubUp
        /\ sessions' = sessions \cup {nextSid}
        /\ nextSid' = nextSid + 1
        /\ log' = Append(log, Entry(r, "open", nextSid, "ok"))
        /\ pc' = [pc EXCEPT ![r] = "set_timeout"]
        /\ UNCHANGED pending
     \/ \E e \in Raisable :
          /\ log' = Append(log, Entry(r, "open", 0, e))
          /\ pending' = [pending EXCEPT ![r] =
                           FetchExcept(CreateDriverExcept(e).cls)]
          /\ pc' = [pc EXCEPT ![r] = "finally"]
          /\ UNCHANGED << sessions, nextSid >>
  /\ UNCHANGED << hubUp, current, route, query, driver, page_source, resp >>

\* create_driver, lines 54-58: set_page_load_timeout(30) on the new session;
\* only when it returns does the handler's `driver` receive the handle.
SetPageLoadTimeout(r) ==
  /\ current = r
  /\ pc[r] = "set_timeout"
  /\ LET sid == nextSid - 1 IN
       \/ /\ log' = Append(log, Entry(r, "set_page_load_timeout", sid, "ok"))
          /\ driver' = [driver EXCEPT ![r] = sid]
          /\ pc' = [pc EXCEPT ![r] = "get"]
          /\ UNCHANGED pending
       \/ \E e \in Raisable :
            /\ log' = Append(log, Entry(r, "set_page_load_timeout", sid, e))
            /\ pending' = [pending EXCEPT ![r] =
                             FetchExcept(CreateDriverExcept(e).cls)]
            /\ pc' = [pc EXCEPT ![r] = "finally"]
            /\ UNCHANGED driver
  /\ UNCHANGED << hubUp, sessions, nextSid, current, route, query,
                  page_source, resp >>

\* A navigate step whose failure is swallowed, so the handler goes on to wait.
Get_Continuing(r) ==
  /\ current = r
  /\ pc[r] = "get"
  /\ \E o \in {"ok"} \cup Raisable :
       log' = Append(log, [req |-> r, op |-> "get", sid |-> driver[r],
                           res |-> o])
  /\ pc' = [pc EXCEPT ![r] = "wait"]
  /\ UNCHANGED << hubUp, sessions, nextSid, current, route, query, driver,
                  page_source, pending, resp >>

\* Line 84: driver.get(url).
Get(r) ==
  /\ current = r
  /\ pc[r] = "get"
  /\ \/ /\ log' = Append(log, Entry(r, "get", driver[r], "ok"))
        /\ pc' = [pc EXCEPT ![r] = "wait"]
        /\ UNCHANGED pending
     \/ \E e \in Raisable :
          /\ log' = Append(log, Entry(r, "get", driver[r], e))
          /\ pending' = [pending EXCEPT ![r] = FetchExcept(e)]
          /\ pc' = [pc EXCEPT ![r] = "finally"]
  /\ UNCHANGED << hubUp, sessions, nextSid, current, route, query, driver,
                  page_source, resp >>

\* Lines 87-88: WebDriverWait(driver, 10).until(body is present).
WaitUntil(r) ==
  /\ current = r
  /\ pc[r] = "wait"
  /\ \/ /\ log' = Append(log, Entry(r, "until", driver[r], "ok"))
        /\ pc' = [pc EXCEPT ![r] = "read"]
        /\ UNCHANGED pending
     \/ \E e \in Raisable :
          /\ log' = Append(log, Entry(r, "until", driver[r], e))
          /\ pending' = [pending EXCEPT ![r] = FetchExcept(e)]
          /\ pc' = [pc EXCEPT ![r] = "finally"]
  /\ UNCHANGED << hubUp, sessions, nextSid, current, route, query, driver,
                  page_source, resp >>

\* Lines 91-94: read driver.page_source and return it as an HTMLResponse.
PageSource(r) ==
  /\ current = r
  /\ pc[r] = "read"
  /\ \/ \E d \in Docs :
          /\ log' = Append(log, Entry(r, "page_source", driver[r], "ok"))
          /\ page_source' = [page_source EXCEPT ![r] = d]
          /\ pending' = [pending EXCEPT ![r] = HTMLResponse(d)]
     \/ \E e \in Raisable :
          /\ log' = Append(log, Entry(r, "page_source", driver[r], e))
          /\ pending' = [pending EXCEPT ![r] = FetchExcept(e)]
          /\ UNCHANGED page_source
  /\ pc' = [pc EXCEPT ![r] = "finally"]
  /\ UNCHANGED << hubUp, sessions, nextSid, current, route, query, driver,
                  resp >>

\* A finally block without the try/except: a failing quit replaces the outcome.
AfterQuit_Propagating(outcome, quitRes) ==
  IF quitRes = "ok"
    THEN outcome
    ELSE [status |-> 500, detail |-> <<"Internal Server Error">>,
          body |-> <<>>, json |-> <<>>]

\* Lines 111-114: the try/except around driver.quit() swallows a failure,
\* so the outcome decided before the finally block stands.
AfterQuit(outcome, quitRes) == outcome

\* Exception classes driver.quit() is drawn to raise.
QuitRaisable == { "WebDriverException" }

\* Lines 108-114: the finally block, then the handler's outcome reaches the
\* caller. A quit that fails leaves the remote session live.
Finally(r) ==
  /\ current = r
  /\ pc[r] = "finally"
  /\ IF Truthy(driver[r])
       THEN \E q \in {"ok"} \cup QuitRaisable :
              /\ log' = Append(log, Entry(r, "quit", driver[r], q))
              /\ sessions' = IF q = "ok" THEN sessions \ {driver[r]}
                                         ELSE sessions
              /\ resp' = [resp EXCEPT ![r] = AfterQuit(pending[r], q)]
       ELSE /\ resp' = [resp EXCEPT ![r] = pending[r]]
            /\ UNCHANGED << log, sessions >>
  /\ pc' = [pc EXCEPT ![r] = "done"]
  /\ current' = 0
  /\ UNCHANGED << hubUp, nextSid, route, query, driver, page_source,
                  pending >>

Next ==
  \/ HubChange
  \/ \E r \in Reqs : Receive(r)
  \/ \E r \in Reqs : HealthCheck(r)
  \/ \E r \in Reqs : BindFetch(r)
  \/ \E r \in Reqs : ValidateUrl(r)
  \/ \E r \in Reqs : RemoteOpen(r)
  \/ \E r \in Reqs : SetPageLoadTimeout(r)
  \/ \E r \in Reqs : Get(r)
  \/ \E r \in Reqs : WaitUntil(r)
  \/ \E r \in Reqs : PageSource(r)
  \/ \E r \in Reqs : Finally(r)

Spec == Init /\ [][Next]_vars

\* Lines 108-110 when `driver` is None: the finally block skips quit.
FinallyWithoutDriver(r) == ~Truthy(driver[r]) /\ Finally(r)

\* The steps the code bounds in time are taken once they are enabled: the URL
\* checks are local, driver.get is bounded by set_page_load_timeout(30)
\* (line 54) and the readiness wait by WebDriverWait(driver, 10) (line 87).
\* The code sets no timeout on webdriver.Remote, set_page_load_timeout,
\* page_source or quit, so nothing obliges those calls to return. A finally
\* block that finds `driver` None makes no call and always completes.
LiveSpec ==
  /\ Spec
  /\ \A r \in Reqs :
       /\ WF_vars(ValidateUrl(r))
       /\ WF_vars(Get(r))
       /\ WF_vars(WaitUntil(r))
       /\ WF_vars(FinallyWithoutDriver(r))

\* ------------------------------------------------------------ properties

\* Positions in the log of the calls `op` made while handling request r.
Calls(r, op) == { i \in DOMAIN log : log[i].req = r /\ log[i].op = op }

Opens(r) == Cardinality(Calls(r, "open"))

Closes(r) == Cardinality(Calls(r, "quit"))

Raised(r, op, cls) == \E i \in Calls(r, op) : log[i].res = cls

Failed(r, op) == \E i \in Calls(r, op) : log[i].res # "ok"

Succeeded(r, op) == \E i \in Calls(r, op) : log[i].res = "ok"

FetchDone(r) == pc[r] = "done" /\ route[r] = "/"

HealthDone(r) == pc[r] = "done" /\ route[r] = "/health"

HasUrl(r) == Len(query[r]) = 1

\* The url has one of the two schemes, stated on its characters.
HasHttpScheme(u) ==
  \E n \in 0..Len(u) :
    SubSeq(u, 1, n) \in { HttpPrefix, HttpsPrefix }

\* C1 (as stated): every finished fetch request with outcome 200, 400, 408 or
\* 500 has made exactly one open call and exactly one close call.
C1_Original ==
  \A r \in Reqs :
    (FetchDone(r) /\ resp[r].status \in {200, 400, 408, 500})
      => (Opens(r) = 1 /\ Closes(r) = 1)

\* C1 (amended): a finished fetch request rejected with 400 or 422 has made
\* no open and no close call; every other finished fetch request has made
\* exactly one open call, and exactly one close call when create_driver
\* returned a driver and none when it raised.
C1_OpenCloseCounts ==
  \A r \in Reqs :
    FetchDone(r) =>
      IF resp[r].status \in {400, 422}
        THEN Opens(r) = 0 /\ Closes(r) = 0
        ELSE /\ Opens(r) = 1
             /\ Closes(r) =
                  IF Succeeded(r, "set_page_load_timeout") THEN 1 ELSE 0

C1_Witness ==
  \E r \in Reqs :
    /\ FetchDone(r)
    /\ resp[r].status = 408
    /\ Opens(r) = 1
    /\ Closes(r) = 1

\* C2 (as stated): when webdriver.Remote raises inside create_driver, the
\* response is 500 and its detail includes SELENIUM_HUB_URL.
C2_HubInDetail ==
  \A r \in Reqs :
    (FetchDone(r) /\ Failed(r, "open"))
      => /\ resp[r].status = 500
         /\ \E k \in DOMAIN resp[r].detail :
              resp[r].detail[k] = SELENIUM_HUB_URL

\* C3 (as stated): when a request has returned, every session created for it
\* has had a close attempted on it, and at most one session was created.
C3_EverySessionClosed ==
  \A r \in Reqs :
    pc[r] = "done" =>
      /\ \A i \in Calls(r, "open") :
           log[i].res = "ok" =>
             \E j \in Calls(r, "quit") : j > i /\ log[j].sid = log[i].sid
      /\ Cardinality({ i \in Calls(r, "open") : log[i].res = "ok" }) <= 1

\* C4 (as stated): a fetch request without the url parameter, or with an
\* empty one, is answered 400 "URL parameter is required".
C4_MissingUrlIs400 ==
  \A r \in Reqs :
    (FetchDone(r) /\ (~HasUrl(r) \/ query[r] = << <<>> >>))
      => /\ resp[r].status = 400
         /\ resp[r].detail = <<"URL parameter is required">>

\* C5: a fetch request whose url is non-empty and starts with neither
\* http:// nor https:// is answered 400 "URL must start with http:// or
\* https://".
C5_BadSchemeIs400 ==
  \A r \in Reqs :
    (FetchDone(r) /\ HasUrl(r) /\ query[r][1] # <<>>
       /\ ~HasHttpScheme(query[r][1]))
      => /\ resp[r].status = 400
         /\ resp[r].detail = <<"URL must start with http:// or https://">>

C5_Witness ==
  \E r \in Reqs :
    /\ FetchDone(r)
    /\ HasUrl(r)
    /\ query[r][1] = <<"h", "t", "t", "p", ":", "/", "a">>
    /\ resp[r].status = 400

\* C6: when the readiness wait raises TimeoutException, the response is 408
\* and page_source is never read.
C6_WaitTimeoutIs408 ==
  \A r \in Reqs :
    (FetchDone(r) /\ Raised(r, "until", "TimeoutException"))
      => /\ resp[r].status = 408
         /\ Calls(r, "page_source") = {}

C6_Witness ==
  \E r \in Reqs :
    /\ FetchDone(r)
    /\ Succeeded(r, "open")
    /\ Succeeded(r, "get")
    /\ Raised(r, "until", "TimeoutException")
    /\ resp[r].status = 408

\* C7: when open, navigate, wait and read all succeed, the response is 200
\* and its body is the string page_source returned.
C7_BodyIsPageSource ==
  \A r \in Reqs :
    (FetchDone(r) /\ Succeeded(r, "page_source"))
      => /\ resp[r].status = 200
         /\ resp[r].body = page_source[r]

C7_Witness ==
  \E r \in Reqs :
    /\ FetchDone(r)
    /\ Succeeded(r, "page_source")
    /\ page_source[r] = <<"<body>", "Hello", "</body>">>
    /\ resp[r].body = <<"<body>", "Hello", "</body>">>

\* C8: when driver.quit() raises, the response is the outcome the handler had
\* decided before the finally block (200 with the page, 408 or 500).
C8_QuitFailureSwallowed ==
  \A r \in Reqs :
    (FetchDone(r) /\ Failed(r, "quit"))
      => /\ resp[r] = pending[r]
         /\ resp[r].status \in {200, 408, 500}
         /\ resp[r].status = 200 => resp[r].body = page_source[r]
         /\ Raised(r, "until", "TimeoutException") => resp[r].status = 408

C8_Witness ==
  \E r \in Reqs :
    /\ FetchDone(r)
    /\ Failed(r, "quit")
    /\ resp[r].status = 200
    /\ resp[r].body = <<"<body>", "Hello", "</body>">>

\* C9: a failure of navigate, wait or read that is not a TimeoutException
\* yields 500.
C9_NonTimeoutIs500 ==
  \A r \in Reqs :
    FetchDone(r) =>
      \A op \in {"get", "until", "page_source"} :
        \A i \in Calls(r, op) :
          log[i].res \notin {"ok", "TimeoutException"}
            => resp[r].status = 500

C9_Witness ==
  \E r \in Reqs :
    /\ FetchDone(r)
    /\ Raised(r, "get", "WebDriverException")
    /\ resp[r].status = 500

\* C10: a finished /health request has the fixed 200 payload and has made no
\* call on the remote endpoint, whatever the endpoint's availability.
C10_HealthAlways200 ==
  \A r \in Reqs :
    HealthDone(r) =>
      /\ resp[r].status = 200
      /\ resp[r].json = << <<"status", "healthy">>,
                           <<"service", "selenium-scraper">> >>
      /\ \A i \in DOMAIN log : log[i].req = r => log[i].op = "health"

C10_Witness ==
  \E r \in Reqs :
    /\ HealthDone(r)
    /\ ~hubUp
    /\ log # <<>>
    /\ log[Len(log)].req = r
    /\ resp[r].status = 200

\* The log entries of request r, in order.
OwnLog(r) == SelectSeq(log, LAMBDA e : e.req = r)

\* The order of the calls fetch_page makes before the finally block.
StepOrder == <<"open", "set_page_load_timeout", "get", "until", "page_source">>

\* C11: the calls of one fetch request occur in the order open, (page-load
\* timeout setting,) navigate, wait, read, each only after the previous one
\* succeeded; quit is the last call and is made on the opened session; after
\* a failed call no further step runs and the handler is in or past its
\* finally block.
C11_StepOrder ==
  \A r \in Reqs :
    route[r] = "/" =>
      LET t == OwnLog(r)
          n == Len(t)
      IN  \A i \in 1..n :
            /\ t[i].op = "quit" =>
                 /\ i = n
                 /\ i > 2
                 /\ t[i].sid = t[1].sid
            /\ t[i].op # "quit" =>
                 /\ i <= Len(StepOrder)
                 /\ t[i].op = StepOrder[i]
                 /\ \A j \in 1..(i - 1) : t[j].res = "ok"
                 /\ i > 1 => t[i].sid = t[1].sid
            /\ (t[i].op # "quit" /\ t[i].res # "ok") =>
                 /\ pc[r] \in {"finally", "done"}
                 /\ i = n \/ (i + 1 = n /\ t[n].op = "quit")

C11_Witness ==
  \E r \in Reqs :
    /\ FetchDone(r)
    /\ Len(OwnLog(r)) = 4
    /\ OwnLog(r)[3].op = "get"
    /\ OwnLog(r)[3].res = "WebDriverException"
    /\ OwnLog(r)[4].op = "quit"

\* C12 (as stated): every finished fetch request has a response whose status
\* is 200, 400, 408 or 500, an error response carrying a detail string.
C12_TranslatedStatus ==
  \A r \in Reqs :
    FetchDone(r) =>
      /\ resp[r].status \in {200, 400, 408, 500}
      /\ resp[r].status # 200 => resp[r].detail # <<>>

\* A fetch request whose handler has been entered and has not returned.
InHandler(r) ==
  pc[r] \in {"validate", "remote", "set_timeout", "get", "wait", "read",
             "finally"}

\* C13 (as stated): every accepted fetch request eventually completes.
C13_EventuallyCompletes ==
  \A r \in Reqs : InHandler(r) ~> (pc[r] = "done")

\* What request r observed of its own calls: each call and its result.
OwnResults(r) ==
  [i \in 1..Len(OwnLog(r)) |-> <<OwnLog(r)[i].op, OwnLog(r)[i].res>>]

\* C14: every session id in the log is used by one request only, the driver
\* a handler holds is a session that handler opened and no other handler
\* holds, and two finished fetch requests with the same url, the same call
\* results and the same document have the same response.
C14_Independent ==
  /\ \A i, j \in DOMAIN log :
       (log[i].sid # 0 /\ log[i].sid = log[j].sid)
         => log[i].req = log[j].req
  /\ \A r \in Reqs :
       driver[r] # 0 =>
         /\ \E i \in Calls(r, "open") : log[i].sid = driver[r]
         /\ \A q \in Reqs \ {r} : driver[q] # driver[r]
  /\ \A r, q \in Reqs :
       (/\ FetchDone(r)
        /\ FetchDone(q)
        /\ query[r] = query[q]
        /\ OwnResults(r) = OwnResults(q)
        /\ page_source[r] = page_source[q])
         => resp[r] = resp[q]

C14_Witness ==
  \E r, q \in Reqs :
    /\ r # q
    /\ FetchDone(r)
    /\ FetchDone(q)
    /\ driver[r] # 0
    /\ driver[q] # 0
    /\ driver[r] # driver[q]
    /\ Failed(r, "quit")
    /\ resp[r].status = 200
    /\ resp[q].status = 408

\* The url of fetch request r is empty or has neither scheme.
FailsValidation(r) ==
  /\ route[r] = "/"
  /\ HasUrl(r)
  /\ query[r][1] = <<>> \/ ~HasHttpScheme(query[r][1])

\* C15: a fetch request that fails URL validation never has a call in the
\* log nor a driver, and the step that rejects it leaves the sessions of the
\* remote backend and the log unchanged.
C15_RejectedTouchesNothing ==
  /\ [](\A r \in Reqs :
          FailsValidation(r) =>
            /\ OwnLog(r) = <<>>
            /\ driver[r] = 0
            /\ pc[r] \in {"validate", "done"})
  /\ [][\A r \in Reqs :
          (FailsValidation(r) /\ pc[r] = "validate" /\ pc'[r] = "done")
            => /\ sessions' = sessions
               /\ nextSid' = nextSid
               /\ log' = log]_vars

C15_Witness ==
  \E r, q \in Reqs :
    /\ r # q
    /\ FetchDone(r)
    /\ FailsValidation(r)
    /\ resp[r].status = 400
    /\ OwnLog(r) = <<>>
    /\ pc[q] = "done"
    /\ sessions # {}

\* C16: when driver.get raises TimeoutException the response is 408 "Page
\* load timeout", the same response a readiness timeout gets, neither the
\* wait nor the read is run, and quit is attempted exactly once.
C16_NavigateTimeoutIs408 ==
  \A r \in Reqs :
    (FetchDone(r) /\ Raised(r, "get", "TimeoutException"))
      => /\ resp[r].status = 408
         /\ resp[r].detail = <<"Page load timeout">>
         /\ \A q \in Reqs :
              (FetchDone(q) /\ Raised(q, "until", "TimeoutException"))
                => resp[q] = resp[r]
         /\ Calls(r, "until") = {}
         /\ Calls(r, "page_source") = {}
         /\ Closes(r) = 1

C16_Witness ==
  \E r, q \in Reqs :
    /\ FetchDone(r)
    /\ Raised(r, "get", "TimeoutException")
    /\ FetchDone(q)
    /\ Raised(q, "until", "TimeoutException")
    /\ resp[r].status = 408
    /\ Closes(r) = 1

\* Request r has made its open call and its handler has not yet returned.
BetweenOpenAndClose(r) == InHandler(r) /\ Opens(r) > 0

\* C17: at most one request is between its open and its close attempt; the
\* log entries of a request are contiguous (once another request's entry
\* follows, none of its own comes later); and while a request is between
\* open and close, every step that adds a log entry adds one of that request
\* and no other request's response or position changes to a finished one.
C17_NoInterleaving ==
  /\ [](/\ Cardinality({ r \in Reqs : BetweenOpenAndClose(r) }) <= 1
        /\ \A r \in Reqs : InHandler(r) => current = r
        /\ \A j \in 1..(Len(log) - 1) :
             log[j].req # log[j + 1].req =>
               \A i \in 1..j : log[i].req # log[j + 1].req)
  /\ [][\A r \in Reqs :
          BetweenOpenAndClose(r) =>
            /\ log' # log => log'[Len(log')].req = r
            /\ \A q \in Reqs \ {r} :
                 /\ resp'[q] = resp[q]
                 /\ pc'[q] = "done" => pc[q] = "done"
                 /\ ~InHandler(q)']_vars

C17_Witness ==
  \E r, q \in Reqs :
    /\ BetweenOpenAndClose(r)
    /\ pc[r] = "wait"
    /\ pc[q] = "queued"
    /\ route[q] = "/health"

====
